---- MODULE Spec2Model ----
(***************************************************************************)
(* Model of the Trusted Data Now maintenance scripts:                      *)
(*   scripts/ingest_google_forms.py  - sync of data.json against a sheet   *)
(*   scripts/check_accessibility.py  - concurrent URL accessibility probes *)
(*                                                                         *)
(* Python strings are modelled as sequences of one-character strings, so   *)
(* that lower(), strip(), split(), the regular expressions and the urllib  *)
(* parsing are computed character by character as the code computes them.  *)
(* A dict is a function from its keys to values; a missing key is a key    *)
(* outside DOMAIN.                                                         *)
(***************************************************************************)
EXTENDS Integers, Sequences, FiniteSets, TLC

(***************************************************************************)
(* Bounds of the model                                                     *)
(***************************************************************************)
MaxRows == 2        \* data rows of a sheet in the one-pass specification
MaxPasses == 2      \* job runs (sync or accessibility) per behaviour
MaxTicks == 2       \* clock advances per behaviour
MaxSlashes == 2     \* trailing '/' characters of the enumerated URL paths

(***************************************************************************)
(* Python str helpers                                                      *)
(***************************************************************************)
UpperChars == <<"A","B","C","D","E","F","G","H","I","J","K","L","M",
                "N","O","P","Q","R","S","T","U","V","W","X","Y","Z">>
LowerChars == <<"a","b","c","d","e","f","g","h","i","j","k","l","m",
                "n","o","p","q","r","s","t","u","v","w","x","y","z">>
Digits == {"0","1","2","3","4","5","6","7","8","9"}
Whitespace == {" ", "\t", "\n", "\r"}

LowerChar(c) ==
  IF \E i \in 1..26 : UpperChars[i] = c
    THEN LowerChars[CHOOSE i \in 1..26 : UpperChars[i] = c]
    ELSE c

lower(s) == IF s = <<>> THEN <<>> ELSE [i \in 1..Len(s) |-> LowerChar(s[i])]

RECURSIVE lstrip(_)
lstrip(s) == IF s # <<>> /\ Head(s) \in Whitespace THEN lstrip(Tail(s)) ELSE s

RECURSIVE rstrip(_)
rstrip(s) ==
  IF s # <<>> /\ s[Len(s)] \in Whitespace
    THEN rstrip(SubSeq(s, 1, Len(s) - 1))
    ELSE s

strip(s) == rstrip(lstrip(s))

startswith(s, p) == Len(p) <= Len(s) /\ SubSeq(s, 1, Len(p)) = p

endswith(s, p) == Len(p) <= Len(s) /\ SubSeq(s, Len(s) - Len(p) + 1, Len(s)) = p

RECURSIVE findFrom(_, _, _)
findFrom(s, C, i) ==
  IF i > Len(s) THEN 0
  ELSE IF s[i] \in C THEN i
  ELSE findFrom(s, C, i + 1)

\* index of the first character of s that is in the set C, 0 when there is none
find(s, C) == findFrom(s, C, 1)

\* str.split(sep) / re.split on single separator characters: the pieces
\* between characters of C, empty pieces included
RECURSIVE splitOn(_, _)
splitAt(s, C, i) ==
  IF i = 0 THEN <<s>>
  ELSE <<SubSeq(s, 1, i - 1)>> \o splitOn(SubSeq(s, i + 1, Len(s)), C)

splitOn(s, C) == splitAt(s, C, find(s, C))

\* str.partition on the first character of s that is in C, the separator
\* dropped: <<before, after>>, and <<s, "">> when there is none
partitionAt(s, i) ==
  IF i = 0 THEN <<s, <<>>>>
  ELSE <<SubSeq(s, 1, i - 1), SubSeq(s, i + 1, Len(s))>>

partition(s, C) == partitionAt(s, find(s, C))

\* the non-empty members of a sequence of strings, in order
NonEmpty(pieces) == SelectSeq(pieces, LAMBDA piece : piece # <<>>)

\* sep.join(pieces)
RECURSIVE join(_, _)
join(pieces, sep) ==
  IF pieces = <<>> THEN <<>>
  ELSE IF Len(pieces) = 1 THEN pieces[1]
  ELSE pieces[1] \o sep \o join(Tail(pieces), sep)

RECURSIVE SelectIdx(_, _, _)
\* the indices i of 1..n, ascending, for which keep[i] holds
SelectIdx(keep, i, n) ==
  IF i > n THEN <<>>
  ELSE (IF keep[i] THEN <<i>> ELSE <<>>) \o SelectIdx(keep, i + 1, n)

\* str.replace(old, new) for a one-character old
replaceChar(s, old, new) ==
  IF s = <<>> THEN <<>> ELSE [i \in 1..Len(s) |-> IF s[i] = old THEN new ELSE s[i]]

(***************************************************************************)
(* ingest_google_forms.py : helpers                                        *)
(***************************************************************************)
norm(s) == strip(s)

\* urllib.parse.urlsplit, for URLs without brackets and control characters
SchemeChars ==
  {LowerChars[i] : i \in 1..26} \cup {UpperChars[i] : i \in 1..26}
    \cup Digits \cup {"+", "-", "."}
Letters == {LowerChars[i] : i \in 1..26} \cup {UpperChars[i] : i \in 1..26}

\* the scheme, lower-cased, and what follows its ':'
SchemeAt(url, colon) ==
  IF /\ colon > 1
     /\ url[1] \in Letters
     /\ \A j \in 1..(colon - 1) : url[j] \in SchemeChars
    THEN <<lower(SubSeq(url, 1, colon - 1)), SubSeq(url, colon + 1, Len(url))>>
    ELSE <<<<>>, url>>

SplitScheme(url) == SchemeAt(url, find(url, {":"}))

\* the netloc after a leading '//' and what follows it
NetlocAt(rest, d) ==
  IF d = 0 THEN <<rest, <<>>>>
  ELSE <<SubSeq(rest, 1, d - 1), SubSeq(rest, d, Len(rest))>>

NetlocOf(rest) == NetlocAt(rest, find(rest, {"/", "?", "#"}))

SplitNetloc(u) ==
  IF startswith(u, <<"/", "/">>) THEN NetlocOf(SubSeq(u, 3, Len(u)))
  ELSE <<<<>>, u>>

UrlParts(scheme, netloc, pathQuery, fragment) ==
  [scheme |-> scheme, netloc |-> netloc, path |-> pathQuery[1],
   query |-> pathQuery[2], fragment |-> fragment]

SplitQuery(scheme, netloc, urlFragment) ==
  UrlParts(scheme, netloc, partition(urlFragment[1], {"?"}), urlFragment[2])

SplitFragment(scheme, netlocRest) ==
  SplitQuery(scheme, netlocRest[1], partition(netlocRest[2], {"#"}))

SplitAfterScheme(schemeRest) ==
  SplitFragment(schemeRest[1], SplitNetloc(schemeRest[2]))

\* urllib.parse.urlsplit, for URLs without brackets and control characters:
\* scheme, then netloc, then fragment, then query, the rest being the path
urlsplit(url) == SplitAfterScheme(SplitScheme(url))

\* schemes of urllib.parse.uses_netloc that the model's URLs use
UsesNetloc == {<<>>, <<"h","t","t","p">>, <<"h","t","t","p","s">>, <<"f","t","p">>}

\* urllib.parse.urlunsplit
urlunsplit(scheme, netloc, path, query, fragment) ==
  (IF scheme # <<>> THEN scheme \o <<":">> ELSE <<>>)
    \o (IF netloc # <<>> \/ (scheme # <<>> /\ scheme \in UsesNetloc
                              /\ ~startswith(path, <<"/", "/">>))
          THEN <<"/", "/">> \o netloc
                 \o (IF path # <<>> /\ Head(path) # "/" THEN <<"/">> ELSE <<>>)
          ELSE <<>>)
    \o path
    \o (IF query # <<>> THEN <<"?">> \o query ELSE <<>>)
    \o (IF fragment # <<>> THEN <<"#">> \o fragment ELSE <<>>)

\* urllib.parse.unquote of a name or value after replace('+', ' ');
\* the model's URLs carry no %XX escapes
unquotePlus(s) == replaceChar(s, "+", " ")

\* urllib.parse.quote_plus on the model's alphabet: letters, digits and
\* '_.-~' are kept, a space becomes '+'
quotePlus(s) == replaceChar(s, " ", "+")

\* one name=value piece as a <<key, value>> pair; a piece without '=' has a
\* blank value
PairOf(nameValue) == <<unquotePlus(nameValue[1]), unquotePlus(nameValue[2])>>

Pairs(pieces) ==
  [i \in 1..Len(pieces) |-> PairOf(partition(pieces[i], {"="}))]

\* urllib.parse.parse_qsl(query, keep_blank_values=True): <<key, value>> pairs
parse_qsl(query) ==
  IF query = <<>> THEN <<>> ELSE Pairs(NonEmpty(splitOn(query, {"&"})))

\* urllib.parse.urlencode of a list of pairs
urlencode(q) ==
  join([i \in 1..Len(q) |-> quotePlus(q[i][1]) \o <<"=">> \o quotePlus(q[i][2])],
       <<"&">>)


\* the path as normalize_url keeps it
TrimPath(path) ==
  IF endswith(path, <<"/">>) /\ path # <<"/">>
    THEN SubSeq(path, 1, Len(path) - 1)
    ELSE path

\* the pairs whose key does not start with utm_, case-insensitively
DropUtm(pairs) ==
  SelectSeq(pairs, LAMBDA pair : ~startswith(lower(pair[1]), <<"u","t","m","_">>))

Rebuild(parts) ==
  urlunsplit(lower(parts.scheme), lower(parts.netloc), TrimPath(parts.path),
             urlencode(DropUtm(parse_qsl(parts.query))), <<>>)

NormalizeStripped(u) == IF u = <<>> THEN u ELSE Rebuild(urlsplit(u))

normalize_url(u0) == NormalizeStripped(norm(u0))

\* Result of detect_column when no header matches (Python None); column
\* indices are 0-based as in the code
None == -1

AlnumLower == {LowerChars[i] : i \in 1..26} \cup Digits

\* re.sub(r'[^a-z0-9]+', ' ', s): every run of other characters -> one space
RECURSIVE subNonAlnum(_)
subNonAlnum(s) ==
  IF s = <<>> THEN <<>>
  ELSE IF Head(s) \in AlnumLower THEN <<Head(s)>> \o subNonAlnum(Tail(s))
  ELSE LET i == find(s, AlnumLower) IN
         IF i = 0 THEN <<" ">>
         ELSE <<" ">> \o subNonAlnum(SubSeq(s, i, Len(s)))

\* str.split() without argument
splitWords(s) == NonEmpty(splitOn(s, Whitespace))

InSeq(x, seq) == \E i \in 1..Len(seq) : seq[i] = x

HeaderKey(h) == strip(subNonAlnum(lower(h)))

HeaderMatches(key, cand) ==
  key = cand \/ startswith(key, cand) \/ InSeq(cand, splitWords(key))

FirstIndex(idxs) == IF idxs = <<>> THEN None ELSE idxs[1] - 1

\* the index of the first header whose key matches a candidate
DetectKeys(keys, candidates) ==
  FirstIndex(SelectIdx([i \in 1..Len(keys) |->
                          \E c \in 1..Len(candidates) :
                            HeaderMatches(keys[i], candidates[c])],
                       1, Len(keys)))

HeaderKeys(headers) == [i \in 1..Len(headers) |-> HeaderKey(headers[i])]

detect_column(headers, candidates) == DetectKeys(HeaderKeys(headers), candidates)

StripAll(parts) == [i \in 1..Len(parts) |-> strip(parts[i])]

\* split_multi: re.split(r'[,\n;]+', s), trimmed, empty pieces dropped
split_multi(s) ==
  IF s = <<>> THEN <<>>
  ELSE NonEmpty(StripAll(splitOn(s, {",", "\n", ";"})))

s_flood == <<"f","l","o","o","d">>
s_earthquake == <<"e","a","r","t","h","q","u","a","k","e">>
s_wildfire == <<"w","i","l","d","f","i","r","e">>
s_drought == <<"d","r","o","u","g","h","t">>
s_hurricane == <<"h","u","r","r","i","c","a","n","e">>
s_tornado == <<"t","o","r","n","a","d","o">>
s_extreme_weather_tok == <<"e","x","t","r","e","m","e","-","w","e","a","t","h","e","r">>
s_other == <<"o","t","h","e","r">>

\* the alias dict of normalize_type_token, alias.get(t, t)
alias(t) ==
  CASE t = s_flood -> s_flood
    [] t = s_earthquake -> s_earthquake
    [] t = s_wildfire -> s_wildfire
    [] t = s_drought -> s_drought
    [] t = s_hurricane -> s_hurricane
    [] t = s_tornado -> s_tornado
    [] t = <<"e","x","t","r","e","m","e"," ","w","e","a","t","h","e","r">>
         -> s_extreme_weather_tok
    [] t = s_other -> s_other
    [] t = <<"w","i","l","d","f","i","r","e","s">> -> s_wildfire
    [] t = <<"f","l","o","o","d","i","n","g">> -> s_flood
    [] t = <<"h","u","r","r","i","c","a","n","e","s">> -> s_hurricane
    [] t = <<"t","o","r","n","a","d","o","s">> -> s_tornado
    [] t = <<"t","o","r","n","a","d","o","e","s">> -> s_tornado
    [] t = <<"e","a","r","t","h","q","u","a","k","e","s">> -> s_earthquake
    [] t = <<"d","r","o","u","g","h","t","s">> -> s_drought
    [] OTHER -> t

\* U+2013 and U+2014, each one character of a Python str
EnDash == "ndash"
EmDash == "mdash"

\* the label as normalize_type_token first rewrites it: trimmed, lower-cased,
\* en dash and em dash replaced by '-'
TypeLabelKey(label) ==
  replaceChar(replaceChar(lower(strip(label)), EnDash, "-"), EmDash, "-")

\* re.match(r'^other:\s*(.+)$', t) on the trimmed t matches exactly when
\* something follows "other:"; group(1).strip() is that remainder trimmed.
TokenWith(t, rest) ==
  IF startswith(t, <<"o","t","h","e","r",":">>) /\ rest # <<>> /\ find(rest, {"\n"}) = 0
    THEN [tok |-> alias(s_other), other |-> strip(rest)]
    ELSE [tok |-> alias(t), other |-> <<>>]

\* t and what follows its first six characters ("other:" when it matches)
TokenOf(t) == TokenWith(t, SubSeq(t, 7, Len(t)))

\* normalize_type_token: [tok, other]; other is <<>> for Python None
normalize_type_token(label) == TokenOf(TypeLabelKey(label))

ALLOWED_TYPES ==
  {s_flood, s_earthquake, s_wildfire, s_drought, s_hurricane, s_tornado,
   s_extreme_weather_tok, s_other}


\* the two tuples of to_bool; "" is the last member of the second
TrueWords ==
  {<<"t","r","u","e">>, <<"y","e","s">>, <<"y">>, <<"1">>, <<"o","n">>,
   <<"c","h","e","c","k","e","d">>}
FalseWords ==
  {<<"f","a","l","s","e">>, <<"n","o">>, <<"n">>, <<"0">>, <<"o","f","f">>,
   <<"u","n","c","h","e","c","k","e","d">>, <<>>}

BoolOf(s, default) ==
  IF s \in TrueWords THEN TRUE
  ELSE IF s \in FalseWords THEN FALSE
  ELSE default

\* to_bool; val is always a str here (cell never returns None)
to_bool(val, default) == BoolOf(lower(strip(val)), default)

(***************************************************************************)
(* ingest_google_forms.py : main, the work on one sheet row                *)
(***************************************************************************)
\* the candidates main passes to detect_column for each field
HeaderCandidates ==
  [name |->
     <<<<"d","a","t","a"," ","n","a","m","e">>,
       <<"n","a","m","e">>,
       <<"r","e","s","o","u","r","c","e"," ","n","a","m","e">>>>,
   description |->
     <<<<"d","e","s","c","r","i","p","t","i","o","n">>>>,
   types |->
     <<<<"t","y","p","e">>,
       <<"t","y","p","e","s">>>>,
   url |->
     <<<<"u","r","l">>,
       <<"l","i","n","k">>>>,
   organization |->
     <<<<"o","r","g","a","n","i","z","a","t","i","o","n">>,
       <<"o","r","g">>>>,
   contact |->
     <<<<"c","o","n","t","a","c","t">>,
       <<"e","m","a","i","l">>>>,
   contributorName |->
     <<<<"c","o","n","t","r","i","b","u","t","o","r"," ","n","a","m","e">>,
       <<"c","o","n","t","r","i","b","u","t","o","r">>>>,
   contributorEmail |->
     <<<<"c","o","n","t","r","i","b","u","t","o","r"," ","e","m","a","i","l">>,
       <<"c","o","n","t","r","i","b","u","t","o","r"," ","e","m","a","i","l">>>>,
   notes |->
     <<<<"n","o","t","e","s">>,
       <<"n","o","t","e">>>>,
   subscription |->
     <<<<"r","e","q","u","i","r","e","s"," ","s","u","b","s","c","r","i","p","t","i","o","n">>,
       <<"s","u","b","s","c","r","i","p","t","i","o","n">>>>,
   researchOrOps |->
     <<<<"u","s","e"," ","c","a","s","e">>,
       <<"u","s","e","c","a","s","e">>,
       <<"r","e","s","e","a","r","c","h"," ","o","r"," ","o","p","s">>,
       <<"r","e","s","e","a","r","c","h","o","r","o","p","s">>>>,
   public |->
     <<<<"p","u","b","l","i","c","l","y"," ","a","v","a","i","l","a","b","l","e">>,
       <<"p","u","b","l","i","c">>>>,
   active |->
     <<<<"c","u","r","r","e","n","t","l","y"," ","a","c","t","i","v","e">>,
       <<"a","c","t","i","v","e">>>>]

\* idx: field -> 0-based column index or None
IndexColumns(headers) ==
  LET keys == HeaderKeys(headers)
  IN [f \in DOMAIN HeaderCandidates |-> DetectKeys(keys, HeaderCandidates[f])]

\* cell(ix) of row r; r[ix] of the code is r[ix + 1] here
cell(r, ix) == IF ix # None /\ ix < Len(r) THEN norm(r[ix + 1]) ELSE <<>>

raw_types(r, idx) == split_multi(cell(r, idx.types))

\* normalize_type_token of every raw label
Tokens(raw) == [i \in 1..Len(raw) |-> normalize_type_token(raw[i])]

AllowedTokens(toks) ==
  SelectSeq([i \in 1..Len(toks) |-> toks[i].tok], LAMBDA tok : tok \in ALLOWED_TYPES)
OtherTexts(toks) == NonEmpty([i \in 1..Len(toks) |-> toks[i].other])

\* the tokens of raw that are in ALLOWED_TYPES, in order
normalized_types(raw) == AllowedTokens(Tokens(raw))

\* the non-empty "other" texts of raw, in order
other_texts(raw) == OtherTexts(Tokens(raw))

\* Dedup that keeps repeated tokens
DedupKeepsAll(seq) == seq

\* the members of seq at the indices idxs
AtIndices(seq, idxs) == [i \in 1..Len(idxs) |-> seq[idxs[i]]]

\* first occurrences only, order kept
Dedup(seq) ==
  AtIndices(seq, SelectIdx([i \in 1..Len(seq) |->
                              \A j \in 1..(i - 1) : seq[j] # seq[i]],
                           1, Len(seq)))

types_final(raw) == Dedup(normalized_types(raw))

\* the res dict as first built from the row
ExtractRes(r, idx) ==
  [name |-> cell(r, idx.name),
   description |-> cell(r, idx.description),
   url |-> cell(r, idx.url),
   organization |-> cell(r, idx.organization),
   contact |-> cell(r, idx.contact),
   contributorName |-> cell(r, idx.contributorName),
   contributorEmail |-> cell(r, idx.contributorEmail),
   notes |-> cell(r, idx.notes),
   subscription |-> to_bool(cell(r, idx.subscription), FALSE),
   researchOrOps |-> cell(r, idx.researchOrOps),
   public |-> to_bool(cell(r, idx.public), TRUE),
   active |-> to_bool(cell(r, idx.active), TRUE)]

\* Reasons without the description check
ReasonsNoDescription(res, types, url_norm) ==
  (IF res.name = <<>> THEN <<"missing name">> ELSE <<>>)
    \o (IF res.url = <<>> THEN <<"missing url">> ELSE <<>>)
    \o (IF types = <<>> THEN <<"no valid types">> ELSE <<>>)
    \o (IF url_norm = <<>> THEN <<"bad url">> ELSE <<>>)

\* the reasons list of a row
Reasons(res, types, url_norm) ==
  (IF res.name = <<>> THEN <<"missing name">> ELSE <<>>)
    \o (IF res.description = <<>> THEN <<"missing description">> ELSE <<>>)
    \o (IF res.url = <<>> THEN <<"missing url">> ELSE <<>>)
    \o (IF types = <<>> THEN <<"no valid types">> ELSE <<>>)
    \o (IF url_norm = <<>> THEN <<"bad url">> ELSE <<>>)

\* The JSON value of "type": a string for one token, an array for several.
\* The two shapes are tagged so that they can be told apart.
TypeValue(types) ==
  IF Len(types) > 1 THEN [kind |-> "list", val |-> types]
  ELSE [kind |-> "str", val |-> types[1]]

Ascii ==
  <<
  " ","!","#","$","%","&","'","(",")","*","+",",","-",".","/",
  "0","1","2","3","4","5","6","7","8","9",":",";","<","=",">","?",
  "@","A","B","C","D","E","F","G","H","I","J","K","L","M","N","O",
  "P","Q","R","S","T","U","V","W","X","Y","Z","[","]","^","_",
  "a","b","c","d","e","f","g","h","i","j","k","l","m","n","o",
  "p","q","r","s","t","u","v","w","x","y","z","{","|","}","~"
  >>

\* code point order of characters (the table omits the double quote, the
\* backslash and the backquote); the dashes sort after ASCII
Ord(c) ==
  IF \E i \in 1..Len(Ascii) : Ascii[i] = c
    THEN CHOOSE i \in 1..Len(Ascii) : Ascii[i] = c
    ELSE Len(Ascii) + 1

\* Python's < on str
RECURSIVE StrLess(_, _)
StrLess(a, b) ==
  IF b = <<>> THEN FALSE
  ELSE IF a = <<>> THEN TRUE
  ELSE IF Head(a) = Head(b) THEN StrLess(Tail(a), Tail(b))
  ELSE Ord(Head(a)) < Ord(Head(b))


\* "Other type(s): " + ", ".join(sorted(set(other_texts)))
OtherNote(others) ==
  <<"O","t","h","e","r"," ","t","y","p","e","(","s",")",":"," ">>
    \o join(SortSeq(Dedup(others), StrLess), <<","," ">>)

\* res["notes"] after the other-type note is appended
NotesWith(notes, others) ==
  IF others = <<>> THEN notes
  ELSE strip(notes \o (IF notes # <<>> THEN <<" ","|"," ">> ELSE <<>>)
               \o OtherNote(others))

\* res with the type, the notes and the normalized url written into it
Attach(res, types, others, url_norm) ==
  [k \in DOMAIN res \cup {"type"} |->
     CASE k = "type" -> TypeValue(types)
       [] k = "notes" -> NotesWith(res.notes, others)
       [] k = "url" -> url_norm
       [] OTHER -> res[k]]

Assemble(res, raw) ==
  Attach(res, types_final(raw), other_texts(raw), normalize_url(res.url))

\* res of a row that passed validation, before the accessibility fields
Candidate(r, idx) == Assemble(ExtractRes(r, idx), raw_types(r, idx))

AccessibilityKeys ==
  {"accessible", "lastChecked", "accessibilityStatus", "accessibilityError"}

\* dict.get
Get(d, k, default) == IF k \in DOMAIN d THEN d[k] ELSE default

\* PreserveAccessibility that writes all four fields, null when missing
PreserveAccessibilityAlways(res, existing_res) ==
  [k \in DOMAIN res \cup AccessibilityKeys |->
     IF k \in AccessibilityKeys THEN Get(existing_res, k, "null") ELSE res[k]]

\* res after the "Preserve accessibility data if it exists" block
PreserveAccessibility(res, existing_res) ==
  LET kept == AccessibilityKeys \cap DOMAIN existing_res
  IN [k \in DOMAIN res \cup kept |-> IF k \in kept THEN existing_res[k] ELSE res[k]]

\* the index of the last record whose key is u
LastWith(keys, u) ==
  CHOOSE i \in 1..Len(keys) : keys[i] = u /\ \A j \in (i + 1)..Len(keys) : keys[j] # u

IndexByKeys(records, keys) ==
  [u \in {keys[i] : i \in 1..Len(keys)} \ {<<>>} |-> records[LastWith(keys, u)]]

\* existing_by_url: normalized url -> the last record of data with that url
BuildIndex(records) ==
  IndexByKeys(records,
              [i \in 1..Len(records) |-> normalize_url(Get(records[i], "url", <<>>))])

\* CountRemoved as the difference of the two sizes
CountRemovedBySize(by_url, seen) ==
  Cardinality(DOMAIN by_url) - Cardinality(seen)

\* the removed count: existing urls that no emitted row carried
CountRemoved(by_url, seen) == Cardinality({u \in DOMAIN by_url : u \notin seen})

(***************************************************************************)
(* The sheets and stores the model runs on                                 *)
(***************************************************************************)
HFull ==
  <<<<"D","a","t","a"," ","N","a","m","e">>,
   <<"D","e","s","c","r","i","p","t","i","o","n">>,
   <<"T","y","p","e">>,
   <<"U","R","L">>,
   <<"O","r","g","a","n","i","z","a","t","i","o","n">>,
   <<"C","o","n","t","a","c","t">>,
   <<"C","o","n","t","r","i","b","u","t","o","r"," ","N","a","m","e">>,
   <<"C","o","n","t","r","i","b","u","t","o","r"," ","E","m","a","i","l">>,
   <<"N","o","t","e","s">>,
   <<"R","e","q","u","i","r","e","s"," ","S","u","b","s","c","r","i","p","t","i","o","n">>,
   <<"U","s","e"," ","C","a","s","e">>,
   <<"P","u","b","l","i","c","l","y"," ","A","v","a","i","l","a","b","l","e">>,
   <<"C","u","r","r","e","n","t","l","y"," ","A","c","t","i","v","e">>>>

\* a sheet without the subscription / public / active columns
HShort ==
  <<<<"N","a","m","e">>,
   <<"D","e","s","c","r","i","p","t","i","o","n">>,
   <<"T","y","p","e","s">>,
   <<"L","i","n","k">>>>

rA ==
  <<<<"G","a","u","g","e">>,
   <<"L","e","v","e","l","s">>,
   <<"F","l","o","o","d",","," ","F","l","o","o","d","i","n","g",","," ","O","t","h","e","r",":"," ","L","a","n","d","s","l","i","d","e">>,
   <<"h","t","t","p","s",":","/","/","X",".","c","o","/","a","/">>,
   <<"U","S","G","S">>,
   <<"c","@","x",".","c","o">>,
   <<"A","n","n">>,
   <<"a","@","x",".","c","o">>,
   <<"n","1">>,
   <<"y","e","s">>,
   <<"o","p","s">>,
   <<"m","a","y","b","e">>,
   <<"N","o">>>>

rA2 ==
  <<<<"G","a","u","g","e","2">>,
   <<"L","e","v","e","l","s","2">>,
   <<"F","l","o","o","d",";"," ","D","r","o","u","g","h","t">>,
   <<" ","h","t","t","p","s",":","/","/","x",".","c","o","/","a","?","u","t","m","_","s","=","1"," ">>>>

rB ==
  <<<<"F","i","r","e">>,
   <<"M","a","p","s">>,
   <<"W","i","l","d","f","i","r","e","s">>,
   <<"h","t","t","p","s",":","/","/","x",".","c","o","/","b">>,
   <<>>,
   <<>>,
   <<>>,
   <<>>,
   <<>>,
   <<>>,
   <<>>,
   <<"Y","e","s">>,
   <<>>>>

rC ==
  <<<<"Q","u","a","k","e">>,
   <<"S","h","a","k","e","s">>,
   <<"O","t","h","e","r",":"," ","M","u","d",","," ","o","t","h","e","r",":"," ","a","s","h","\n","E","a","r","t","h","q","u","a","k","e","s">>,
   <<"x",".","c","o","/","c","/","/">>,
   <<>>,
   <<>>,
   <<>>,
   <<>>,
   <<>>,
   <<"1">>,
   <<>>,
   <<"0">>,
   <<"o","n">>>>

rNoName ==
  <<<<>>,
   <<"M","a","p","s">>,
   <<"F","l","o","o","d">>,
   <<"h","t","t","p","s",":","/","/","x",".","c","o","/","b">>>>

rNoDesc ==
  <<<<"N","o","D","e","s","c">>,
   <<" ">>,
   <<"F","l","o","o","d">>,
   <<"h","t","t","p","s",":","/","/","x",".","c","o","/","b">>>>

rNoUrl ==
  <<<<"N","o","U","r","l">>,
   <<"M","a","p","s">>,
   <<"F","l","o","o","d">>,
   <<>>>>

rNoType ==
  <<<<"N","o","T","y","p","e">>,
   <<"M","a","p","s">>,
   <<"V","o","l","c","a","n","o",","," ","O","t","h","e","r",":">>,
   <<"h","t","t","p","s",":","/","/","x",".","c","o","/","b">>>>

rBadUrl ==
  <<<<"B","a","d","U","r","l">>,
   <<"M","a","p","s">>,
   <<"T","o","r","n","a","d","o","s">>,
   <<"#","t","o","p">>>>

\* records of an existing data.json, before any accessibility field
eA ==
  [name |-> <<"O","l","d","A">>, description |-> <<"d">>, url |-> <<"h","t","t","p","s",":","/","/","x",".","c","o","/","a">>,
   organization |-> <<>>, contact |-> <<>>, contributorName |-> <<>>,
   contributorEmail |-> <<>>, notes |-> <<>>, subscription |-> FALSE,
   researchOrOps |-> <<>>, public |-> TRUE, active |-> TRUE,
   type |-> [kind |-> "str", val |-> s_flood]]

eB ==
  [name |-> <<"O","l","d","B">>, description |-> <<"d">>, url |-> <<"h","t","t","p","s",":","/","/","x",".","c","o","/","b">>,
   organization |-> <<>>, contact |-> <<>>, contributorName |-> <<>>,
   contributorEmail |-> <<>>, notes |-> <<>>, subscription |-> FALSE,
   researchOrOps |-> <<>>, public |-> TRUE, active |-> TRUE,
   type |-> [kind |-> "str", val |-> s_flood]]

eC ==
  [name |-> <<"O","l","d","C">>, description |-> <<"d">>, url |-> <<"h","t","t","p","s",":","/","/","x",".","c","o","/","c","/">>,
   organization |-> <<>>, contact |-> <<>>, contributorName |-> <<>>,
   contributorEmail |-> <<>>, notes |-> <<>>, subscription |-> FALSE,
   researchOrOps |-> <<>>, public |-> TRUE, active |-> TRUE,
   type |-> [kind |-> "str", val |-> s_flood]]

eNoUrl ==
  [name |-> <<"B","l","a","n","k">>, description |-> <<"d">>, url |-> <<>>,
   organization |-> <<>>, contact |-> <<>>, contributorName |-> <<>>,
   contributorEmail |-> <<>>, notes |-> <<>>, subscription |-> FALSE,
   researchOrOps |-> <<>>, public |-> TRUE, active |-> TRUE,
   type |-> [kind |-> "str", val |-> s_flood]]

\* a row sequence of at most k rows drawn from the sequence pool
RowSeqs(pool, k) ==
  UNION {[1..m -> {pool[i] : i \in 1..Len(pool)}] : m \in 0..k}

\* sheets: a header row followed by data rows; <<>> is a source without rows
RichRows == <<rA, rA2, rB, rC, rNoName, rNoDesc, rNoUrl, rNoType, rBadUrl>>
RichSheets ==
  {<<>>} \cup {<<h>> \o rs : h \in {HFull, HShort}, rs \in RowSeqs(RichRows, MaxRows)}

SmallSheets ==
  {<<>>, <<HFull, rA>>, <<HFull, rA2, rB>>, <<HFull, rNoDesc, rA, rA2>>,
   <<HShort, rC, rB>>}

(***************************************************************************)
(* check_accessibility.py                                                  *)
(***************************************************************************)
\* lastChecked values: datetime.isoformat() of an aware UTC time, counted in
\* hours, and a string that datetime.fromisoformat rejects
IsoFormat(t) == [kind |-> "iso", t |-> t]
Garbage == [kind |-> "text", t |-> 0]

RecheckHours == 24

\* should_check of one resource
ShouldCheck(resource, all, clock) ==
  IF all THEN TRUE
  ELSE IF "lastChecked" \notin DOMAIN resource THEN FALSE
  ELSE IF resource["lastChecked"].kind = "iso"
    THEN clock - resource["lastChecked"].t >= RecheckHours
    ELSE TRUE

\* url_indices: the positions (1-based here) of the resources to probe
SelectToCheck(records, all, clock) ==
  LET keep == [i \in 1..Len(records) |->
                 ShouldCheck(records[i], all, clock)
                   /\ Get(records[i], "url", <<>>) # <<>>]
  IN SelectIdx(keep, 1, Len(records))

\* What the network does to one probe: the answer to the HEAD request and
\* to the GET request, each an HTTP status or a raised exception.
Response(status) == [exc |-> "none", status |-> status]
Raises(exc) == [exc |-> exc, status |-> 0]
RequestExceptions == {"Timeout", "ConnectionError", "SSLError", "RequestException"}

Result(ok, msg, code) == [is_accessible |-> ok, error_msg |-> msg, status_code |-> code]

HttpError(status) ==
  CASE status = 403 -> "HTTP 403"
    [] status = 404 -> "HTTP 404"
    [] status = 405 -> "HTTP 405"
    [] status = 500 -> "HTTP 500"
    [] OTHER -> "HTTP"

\* the except clauses of check_url_accessibility, in their order; SSLError is
\* a subclass of ConnectionError in requests and is caught by that clause
ExceptionResult(exc) ==
  CASE exc = "Timeout" -> Result(FALSE, "Timeout", 0)
    [] exc = "ConnectionError" -> Result(FALSE, "Connection Error", 0)
    [] exc = "SSLError" -> Result(FALSE, "Connection Error", 0)
    [] exc = "RequestException" -> Result(FALSE, "Request Error", 0)
    [] OTHER -> Result(FALSE, "Unexpected Error", 0)

StatusResult(r) ==
  IF 200 <= r.status /\ r.status < 400 THEN Result(TRUE, "", r.status)
  ELSE Result(FALSE, HttpError(r.status), r.status)

GetResult(get) ==
  IF get.exc = "none" THEN StatusResult(get) ELSE ExceptionResult(get.exc)

check_url_accessibility(url, net) ==
  IF url = <<>> \/ strip(url) = <<>> THEN Result(FALSE, "Empty URL", 0)
  ELSE IF net.head.exc = "none" THEN
    IF 200 <= net.head.status /\ net.head.status < 400
      THEN Result(TRUE, "", net.head.status)
    ELSE IF net.head.status \in {404, 403, 405} THEN GetResult(net.get)
    ELSE Result(FALSE, HttpError(net.head.status), net.head.status)
  ELSE IF net.head.exc \in RequestExceptions THEN GetResult(net.get)
  ELSE ExceptionResult(net.head.exc)

\* the network behaviours the model draws from
Net ==
  {[head |-> Response(200), get |-> Response(200)],
   [head |-> Response(404), get |-> Response(404)],
   [head |-> Raises("Timeout"), get |-> Raises("Timeout")]}

\* ApplyResult that leaves an earlier accessibilityError in place
ApplyResultKeepsError(resource, result, stamp) ==
  [k \in DOMAIN resource \cup
           (IF result.is_accessible
              THEN {"accessible", "lastChecked", "accessibilityStatus"}
              ELSE AccessibilityKeys) |->
     CASE k = "accessible" -> result.is_accessible
       [] k = "lastChecked" -> stamp
       [] k = "accessibilityStatus" -> result.status_code
       [] k = "accessibilityError" ->
            IF result.is_accessible THEN resource[k] ELSE result.error_msg
       [] OTHER -> resource[k]]

\* one resource after its result is written
ApplyResult(resource, result, stamp) ==
  LET keys == IF result.is_accessible
                THEN (DOMAIN resource \cup {"accessible", "lastChecked",
                                            "accessibilityStatus"})
                       \ {"accessibilityError"}
                ELSE DOMAIN resource \cup AccessibilityKeys
  IN [k \in keys |->
        CASE k = "accessible" -> result.is_accessible
          [] k = "lastChecked" -> stamp
          [] k = "accessibilityStatus" -> result.status_code
          [] k = "accessibilityError" -> result.error_msg
          [] OTHER -> resource[k]]

\* data after the "Update the data with results" loop
UpdateData(records, indices, res, stamp) ==
  [j \in 1..Len(records) |->
     IF \E i \in 1..Len(res) : indices[i] = j
       THEN ApplyResult(records[j],
                        res[CHOOSE i \in 1..Len(res) : indices[i] = j],
                        stamp)
       ELSE records[j]]


(***************************************************************************)
(* State                                                                   *)
(***************************************************************************)
VARIABLES
  store,            \* the content of data.json: a sequence of records
  clock,            \* datetime.now(timezone.utc), in hours
  ticks,            \* clock advances so far
  passes,           \* jobs started so far
  pc,               \* "idle", "sync" (row loop) or "check" (probes in flight)
  lastJob,          \* how the last job ended: "none", "sync", "sync_empty",
                    \* "check", "check_none"
  \* ingest_google_forms.py main
  rows, idx, n, data, existing_by_url, new_data, added, updated, removed,
  skipped, processed_urls,
  \* check_accessibility.py update_accessibility_data / check_urls_batch
  check_all, current_time, urls_to_check, url_indices, futures, results,
  yielded,
  \* argument and successive return values of a helper called on its own
  fnArg, fnRet

syncVars == <<rows, idx, n, existing_by_url, new_data, added, updated, removed,
              skipped, processed_urls>>
checkVars == <<check_all, current_time, urls_to_check, url_indices, futures,
               results, yielded>>
fnVars == <<fnArg, fnRet>>
vars == <<store, clock, ticks, passes, pc, lastJob, data, syncVars, checkVars,
          fnVars>>

JobsIdle ==
  /\ clock = 0 /\ ticks = 0 /\ pc = "idle" /\ lastJob = "none"
  /\ rows = <<>> /\ idx = IndexColumns(<<>>) /\ n = 2 /\ data = <<>>
  /\ existing_by_url = BuildIndex(<<>>) /\ new_data = <<>>
  /\ added = 0 /\ updated = 0 /\ removed = 0
  /\ skipped = <<>> /\ processed_urls = {}
  /\ check_all = FALSE /\ current_time = IsoFormat(0)
  /\ urls_to_check = <<>> /\ url_indices = <<>> /\ futures = <<>>
  /\ results = <<>> /\ yielded = {}

(***************************************************************************)
(* ingest_google_forms.py main: one sync pass                              *)
(***************************************************************************)
\* Load data.json, index it, read the sheet; a source without rows rewrites
\* the store unchanged and returns.
SyncStart(sheet) ==
  /\ pc = "idle"
  /\ passes < MaxPasses
  /\ passes' = passes + 1
  /\ data' = store
  /\ existing_by_url' = BuildIndex(store)
  /\ rows' = sheet
  /\ IF sheet = <<>>
       THEN /\ store' = store
            /\ lastJob' = "sync_empty"
            /\ UNCHANGED <<pc, idx, n, new_data, added, updated, removed,
                           skipped, processed_urls>>
       ELSE /\ idx' = IndexColumns(sheet[1])
            /\ added' = 0 /\ updated' = 0 /\ removed' = 0
            /\ skipped' = <<>> /\ new_data' = <<>> /\ processed_urls' = {}
            /\ n' = 2
            /\ pc' = "sync"
            /\ UNCHANGED <<store, lastJob>>
  /\ UNCHANGED <<clock, ticks, checkVars, fnVars>>

\* the row is appended to new_data, as an update of the existing record
\* with its url or as an addition
EmitRow(cand, url_norm) ==
  /\ processed_urls' = processed_urls \cup {url_norm}
  /\ IF url_norm \in DOMAIN existing_by_url
       THEN /\ new_data' =
                 Append(new_data,
                        PreserveAccessibility(cand, existing_by_url[url_norm]))
            /\ updated' = updated + 1
            /\ UNCHANGED added
       ELSE /\ new_data' = Append(new_data, cand)
            /\ added' = added + 1
            /\ UNCHANGED updated
  /\ UNCHANGED skipped

\* a row with reasons is skipped, any other row is emitted
JudgeRow(res, raw, types, url_norm, reasons) ==
  IF reasons # <<>>
    THEN /\ skipped' = Append(skipped, [n |-> n, reasons |-> reasons,
                                        res |-> res, raw_types |-> raw])
         /\ UNCHANGED <<new_data, added, updated, processed_urls>>
    ELSE EmitRow(Attach(res, types, other_texts(raw), url_norm), url_norm)

ValidateRow(res, raw, types, url_norm) ==
  JudgeRow(res, raw, types, url_norm, Reasons(res, types, url_norm))

ProcessRow(res, raw) ==
  ValidateRow(res, raw, types_final(raw), normalize_url(res.url))

\* One iteration of "for n, r in enumerate(rows[1:], start=2)"
SyncRow ==
  /\ pc = "sync"
  /\ n <= Len(rows)
  /\ ProcessRow(ExtractRes(rows[n], idx), raw_types(rows[n], idx))
  /\ n' = n + 1
  /\ UNCHANGED <<store, clock, ticks, passes, pc, lastJob, data, rows, idx,
                 existing_by_url, removed, checkVars, fnVars>>

\* After the loop: count the removed resources and write the new list
SyncFinish ==
  /\ pc = "sync"
  /\ n > Len(rows)
  /\ removed' = CountRemoved(existing_by_url, processed_urls)
  /\ data' = new_data
  /\ store' = new_data
  /\ pc' = "idle"
  /\ lastJob' = "sync"
  /\ UNCHANGED <<clock, ticks, passes, rows, idx, n, existing_by_url, new_data,
                 added, updated, skipped, processed_urls, checkVars, fnVars>>

(***************************************************************************)
(* check_accessibility.py: one accessibility pass                          *)
(***************************************************************************)
\* the selected urls are submitted to the pool
Submit(indices) ==
  /\ url_indices' = indices
  /\ urls_to_check' = [i \in 1..Len(indices) |-> store[indices[i]].url]
  /\ futures' = [i \in 1..Len(indices) |->
                   [state |-> "pending", result |-> Result(FALSE, "", -1)]]
  /\ IF indices = <<>>
       THEN pc' = "idle" /\ lastJob' = "check_none"
       ELSE pc' = "check" /\ lastJob' = lastJob

\* update_accessibility_data up to the submission of the probes; with nothing
\* to check it returns data as loaded and main rewrites the file unchanged.
CheckStart(all) ==
  /\ pc = "idle"
  /\ passes < MaxPasses
  /\ passes' = passes + 1
  /\ check_all' = all
  /\ current_time' = IsoFormat(clock)
  /\ data' = store
  /\ Submit(SelectToCheck(store, all, clock))
  /\ results' = <<>>
  /\ yielded' = {}
  /\ UNCHANGED <<store, clock, ticks, syncVars, fnVars>>

\* A pool worker runs check_url_accessibility for the k-th submitted url
ProbeRun(k, net) ==
  /\ pc = "check"
  /\ k \in 1..Len(futures)
  /\ futures[k].state = "pending"
  /\ futures' = [futures EXCEPT ![k] =
                   [state |-> "finished",
                    result |-> check_url_accessibility(urls_to_check[k], net)]]
  /\ UNCHANGED <<store, clock, ticks, passes, pc, lastJob, data, syncVars,
                 check_all, current_time, urls_to_check, url_indices, results,
                 yielded, fnVars>>

\* as_completed hands over a finished future; its result is appended
Collect(k) ==
  /\ pc = "check"
  /\ k \in 1..Len(futures)
  /\ futures[k].state = "finished"
  /\ k \notin yielded
  /\ results' = Append(results, futures[k].result)
  /\ yielded' = yielded \cup {k}
  /\ UNCHANGED <<store, clock, ticks, passes, pc, lastJob, data, syncVars,
                 check_all, current_time, urls_to_check, url_indices, futures,
                 fnVars>>

\* CheckFinish with a collecting loop that stops at the first failed probe
CheckFinishStopsEarly ==
  /\ pc = "check"
  /\ \/ yielded = 1..Len(futures)
     \/ \E i \in 1..Len(results) : ~results[i].is_accessible
  /\ data' = UpdateData(data, url_indices, results, current_time)
  /\ store' = data'
  /\ pc' = "idle"
  /\ lastJob' = "check"
  /\ UNCHANGED <<clock, ticks, passes, syncVars, checkVars, fnVars>>

\* check_urls_batch returns; the results are written to data and saved
CheckFinish ==
  /\ pc = "check"
  /\ yielded = 1..Len(futures)
  /\ data' = UpdateData(data, url_indices, results, current_time)
  /\ store' = data'
  /\ pc' = "idle"
  /\ lastJob' = "check"
  /\ UNCHANGED <<clock, ticks, passes, syncVars, checkVars, fnVars>>

\* Time passes between two jobs (a job reads the clock when it starts); the
\* clock advances by half the re-check period at a time
Tick ==
  /\ pc = "idle"
  /\ ticks < MaxTicks
  /\ ticks' = ticks + 1
  /\ clock' = clock + RecheckHours \div 2
  /\ UNCHANGED <<store, passes, pc, lastJob, data, syncVars, checkVars, fnVars>>

(***************************************************************************)
(* Specifications                                                          *)
(***************************************************************************)
\* a data.json written by earlier accessibility passes
eStale ==
  ApplyResult(eA, Result(FALSE, "Timeout", 0), IsoFormat(0 - 30))
eChecked ==
  ApplyResult(eA, Result(TRUE, "", 200), IsoFormat(0 - 12))
eGarbage ==
  [ApplyResult(eB, Result(TRUE, "", 200), Garbage) EXCEPT !["name"] = eB.name]

InitStores == {<<>>, <<eStale, eGarbage>>}

\* Both jobs, run one after the other in any order, on small sheets
Init ==
  /\ store \in InitStores
  /\ passes = 0
  /\ JobsIdle
  /\ fnArg = <<>> /\ fnRet = <<>>

SyncStartSmall == \E sheet \in SmallSheets : SyncStart(sheet)
CheckStartAny == \E all \in BOOLEAN : CheckStart(all)
ProbeRunAny == \E k \in 1..Len(futures), net \in Net : ProbeRun(k, net)
CollectAny == \E k \in 1..Len(futures) : Collect(k)

Next ==
  \/ SyncStartSmall
  \/ SyncRow
  \/ SyncFinish
  \/ CheckStartAny
  \/ ProbeRunAny
  \/ CollectAny
  \/ CheckFinish
  \/ Tick

Spec == Init /\ [][Next]_vars

\* The pool runs every submitted probe, every request ends (status, error or
\* timeout), and the collecting loop keeps running
FairSpec ==
  Spec /\ WF_vars(ProbeRunAny) /\ WF_vars(CollectAny) /\ WF_vars(CheckFinish)

\* One sync pass on the rich sheets, from each of the stores
IngestStores == {<<>>, <<eStale, eB>>, <<eChecked, eNoUrl, eC>>}

InitIngest ==
  /\ store \in IngestStores
  /\ passes = MaxPasses - 1
  /\ JobsIdle
  /\ fnArg = <<>> /\ fnRet = <<>>

SyncStartRich == \E sheet \in RichSheets : SyncStart(sheet)

NextIngest ==
  \/ SyncStartRich
  \/ SyncRow
  \/ SyncFinish

SpecIngest == InitIngest /\ [][NextIngest]_vars

\* A sync pass on a rich sheet, then further sync passes that read the same
\* rows against the store the pass before wrote
InitResync ==
  /\ store \in IngestStores
  /\ passes = 0
  /\ JobsIdle
  /\ fnArg = <<>> /\ fnRet = <<>>

SyncStartFirst == passes = 0 /\ SyncStartRich

SyncStartAgain == passes >= 1 /\ SyncStart(rows)

NextResync ==
  \/ SyncStartFirst
  \/ SyncStartAgain
  \/ SyncRow
  \/ SyncFinish

SpecResync == InitResync /\ [][NextResync]_vars

\* One accessibility pass, after some time, from each of the stores
CheckStores == {<<eStale, eGarbage>>, <<eChecked, eNoUrl, eB>>, <<eB, eStale, eC>>}

InitCheck ==
  /\ store \in CheckStores
  /\ passes = MaxPasses - 1
  /\ JobsIdle
  /\ fnArg = <<>> /\ fnRet = <<>>

NextCheck ==
  \/ CheckStartAny
  \/ ProbeRunAny
  \/ CollectAny
  \/ CheckFinish
  \/ Tick

SpecCheck == InitCheck /\ [][NextCheck]_vars

\* The pool runs every submitted probe, every request ends (status, error or
\* timeout), and the collecting loop keeps running
FairSpecCheck ==
  SpecCheck /\ WF_vars(ProbeRunAny) /\ WF_vars(CollectAny) /\ WF_vars(CheckFinish)

(***************************************************************************)
(* The helpers called on their own                                         *)
(***************************************************************************)
UrlPrefixes ==
  {<<>>,
   <<"x",".","c","o">>,
   <<"h","t","t","p","s",":","/","/","x",".","c","o">>,
   <<"H","T","T","P","S",":","/","/","X",".","c","o">>,
   <<" ","h","t","t","p","s",":","/","/","x",".","c","o">>}
UrlPaths ==
  {<<>>,
   <<"/","a">>,
   <<"/","A","/","b">>}
UrlQueries ==
  {<<>>,
   <<"?","b","=","2">>,
   <<"?","u","t","m","_","s","=","x","&","b","=","2">>,
   <<"?","U","T","M","_","s","=","x">>,
   <<"?","b">>,
   <<"?","b","=","&","c","=","+">>}
UrlFragments ==
  {<<>>,
   <<"#","f","/">>}

UrlInputs ==
  {p \o a \o [i \in 1..k |-> "/"] \o q \o f :
     p \in UrlPrefixes, a \in UrlPaths, k \in 0..MaxSlashes,
     q \in UrlQueries, f \in UrlFragments}

h_ContributorsEMail == <<"C","o","n","t","r","i","b","u","t","o","r","'","s"," ","E","-","M","a","i","l","!">>
HeaderPool ==
  <<h_ContributorsEMail,
    <<"C","o","n","t","r","i","b","u","t","o","r"," ","E","m","a","i","l">>,
    <<"C","o","n","t","r","i","b","u","t","o","r"," ","N","a","m","e">>,
    <<"C","o","n","t","a","c","t"," ","E","-","m","a","i","l">>,
    <<"D","a","t","a"," ","N","a","m","e">>>>
HeaderRows == RowSeqs(HeaderPool, 2)

InitHelpers ==
  /\ store = <<>>
  /\ passes = 0
  /\ JobsIdle
  /\ fnRet = <<>>
  /\ \/ \E u \in UrlInputs : fnArg = [fn |-> "normalize_url", u |-> u]
     \/ \E hs \in HeaderRows, f \in DOMAIN HeaderCandidates :
          fnArg = [fn |-> "detect_column", headers |-> hs, field |-> f]

\* normalize_url on the argument, then on its own result
CallNormalizeUrl ==
  /\ fnArg.fn = "normalize_url"
  /\ Len(fnRet) < 2
  /\ fnRet' = Append(fnRet, normalize_url(IF fnRet = <<>> THEN fnArg.u
                                          ELSE fnRet[Len(fnRet)]))
  /\ UNCHANGED <<store, clock, ticks, passes, pc, lastJob, data, syncVars,
                 checkVars, fnArg>>

\* detect_column on a header row with the candidates main uses for a field
CallDetectColumn ==
  /\ fnArg.fn = "detect_column"
  /\ fnRet = <<>>
  /\ fnRet' = <<detect_column(fnArg.headers, HeaderCandidates[fnArg.field])>>
  /\ UNCHANGED <<store, clock, ticks, passes, pc, lastJob, data, syncVars,
                 checkVars, fnArg>>

NextHelpers ==
  \/ CallNormalizeUrl
  \/ CallDetectColumn

SpecHelpers == InitHelpers /\ [][NextHelpers]_vars

(***************************************************************************)
(* Properties                                                              *)
(***************************************************************************)
\* an accessibility pass has just written its results to the store
CheckWritten == pc = "idle" /\ lastJob = "check"

\* the accessibility fields of record r are what result says
WrittenFrom(r, result) ==
  /\ "accessible" \in DOMAIN r /\ r["accessible"] = result.is_accessible
  /\ "accessibilityStatus" \in DOMAIN r
  /\ r["accessibilityStatus"] = result.status_code
  /\ IF result.is_accessible
       THEN "accessibilityError" \notin DOMAIN r
       ELSE /\ "accessibilityError" \in DOMAIN r
            /\ r["accessibilityError"] = result.error_msg

\* C1: after an accessibility pass, whatever the order in which the probes
\* completed, each probed record carries the outcome of the probe of its own
\* url (the k-th submitted probe belongs to the record at url_indices[k]).
C1_OwnProbeOutcome ==
  CheckWritten =>
    \A k \in 1..Len(url_indices) :
      WrittenFrom(store[url_indices[k]], futures[k].result)

\* the selection of an accessibility pass has been made and data is still
\* the list as loaded
CheckSelected == pc = "check" \/ (pc = "idle" /\ lastJob = "check_none")

\* due for re-check as the interface contract states it
Due(r, stamp) ==
  \/ "lastChecked" \notin DOMAIN r
  \/ r["lastChecked"].kind # "iso"
  \/ stamp.t - r["lastChecked"].t > RecheckHours

\* C2: a record with a non-empty url is probed iff check-all is on or its
\* lastChecked is absent, unparseable or more than 24 hours old; so a record
\* never checked is probed by a run without check-all.
C2_ProbedIffDue ==
  CheckSelected =>
    \A i \in 1..Len(data) :
      InSeq(i, url_indices)
        <=> (Get(data[i], "url", <<>>) # <<>>
               /\ (check_all \/ Due(data[i], current_time)))

\* every submitted probe has run and its outcome has been handed over once
AllResolved ==
  /\ \A k \in 1..Len(futures) : futures[k].state = "finished"
  /\ yielded = 1..Len(futures)
  /\ Len(results) = Len(urls_to_check)
  /\ \A i \in 1..Len(results) :
       Cardinality({j \in 1..Len(results) : results[j] = results[i]})
         = Cardinality({k \in 1..Len(futures) : futures[k].result = results[i]})

\* C10: check_urls_batch always completes, whatever probes fail, with exactly
\* one outcome per submitted url, and it returns only after every submitted
\* probe has resolved.
C10_BatchCompletes ==
  /\ [][(pc = "check" /\ pc' = "idle") => AllResolved]_vars
  /\ [](CheckWritten => Len(results) = Len(urls_to_check))
  /\ (pc = "check") ~> CheckWritten

\* a batch in which some probes failed and some succeeded has returned
C10_Witness ==
  /\ CheckWritten
  /\ Len(results) >= 2
  /\ \E i \in 1..Len(results) : ~results[i].is_accessible
  /\ \E i \in 1..Len(results) : results[i].is_accessible

\* the row under the cursor of the sync loop
AtRow == pc = "sync" /\ n <= Len(rows)

\* the row passes the validation as section 4.4 lists it
RowValidated(r, ix) ==
  /\ cell(r, ix.name) # <<>>
  /\ cell(r, ix.description) # <<>>
  /\ cell(r, ix.url) # <<>>
  /\ types_final(raw_types(r, ix)) # <<>>
  /\ normalize_url(cell(r, ix.url)) # <<>>

\* this step appends a record to the output list; Emitted is that record
Emits == AtRow /\ Len(new_data') = Len(new_data) + 1
Emitted == new_data'[Len(new_data')]

RowFields ==
  {"name", "description", "url", "organization", "contact", "contributorName",
   "contributorEmail", "notes", "type", "subscription", "researchOrOps",
   "public", "active"}

\* C3: when a validated row's normalized url is indexed, the emitted record
\* has every non-accessibility field from the row, and each accessibility
\* field equals the existing record's value when that record has the key and
\* is absent when it has not.
C3_UpdateKeepsAccessibility ==
  [][(/\ AtRow
      /\ n' = n + 1
      /\ RowValidated(rows[n], idx)
      /\ normalize_url(cell(rows[n], idx.url)) \in DOMAIN existing_by_url)
       => /\ Emits
          /\ LET existing_res == existing_by_url[normalize_url(cell(rows[n], idx.url))]
                 fromRow == Candidate(rows[n], idx)
             IN /\ \A f \in RowFields :
                     f \in DOMAIN Emitted /\ Emitted[f] = fromRow[f]
                /\ DOMAIN Emitted \subseteq RowFields \cup AccessibilityKeys
                /\ \A k \in AccessibilityKeys :
                     IF k \in DOMAIN existing_res
                       THEN k \in DOMAIN Emitted /\ Emitted[k] = existing_res[k]
                       ELSE k \notin DOMAIN Emitted]_vars

\* rows were matched against existing records with and without an
\* accessibilityError, and the output carries both shapes
C3_Witness ==
  /\ pc = "sync"
  /\ updated >= 1
  /\ \E k \in 1..Len(new_data) :
       /\ "accessible" \in DOMAIN new_data[k]
       /\ "accessibilityError" \notin DOMAIN new_data[k]
       /\ new_data[k].name # existing_by_url[new_data[k].url].name

\* the normalized urls of the validated rows of a sheet
ValidatedUrls(sheet, ix) ==
  {normalize_url(cell(sheet[i], ix.url)) :
     i \in {j \in 2..Len(sheet) : RowValidated(sheet[j], ix)}}

SyncWritten == pc = "idle" /\ lastJob = "sync"

\* C4: after a sync pass over a sheet with rows, an indexed existing url that
\* no validated row carries is the url of no output record and counts once
\* as removed: removed is the number of such urls.
C4_RemovedAreGone ==
  SyncWritten =>
    LET gone == DOMAIN existing_by_url \ ValidatedUrls(rows, idx)
    IN /\ removed = Cardinality(gone)
       /\ \A u \in gone : \A k \in 1..Len(store) : store[k].url # u

\* a pass removed an existing record and kept or added another
C4_Witness ==
  /\ SyncWritten
  /\ removed >= 1
  /\ Len(store) >= 1
  /\ updated >= 1

\* s contains sub as a substring
Contains(s, sub) ==
  \E i \in 0..(Len(s) - Len(sub)) : SubSeq(s, i + 1, i + Len(sub)) = sub

labels_FloodFloodingOther ==
  <<<<"F","l","o","o","d">>,
   <<"F","l","o","o","d","i","n","g">>,
   <<"O","t","h","e","r",":"," ","L","a","n","d","s","l","i","d","e">>>>
labels_FloodDrought ==
  <<<<"F","l","o","o","d">>,
   <<"D","r","o","u","g","h","t">>>>
note_Landslide == <<"O","t","h","e","r"," ","t","y","p","e","(","s",")",":"," ","L","a","n","d","s","l","i","d","e">>
note_landslide == <<"O","t","h","e","r"," ","t","y","p","e","(","s",")",":"," ","l","a","n","d","s","l","i","d","e">>

\* C6 as stated: the labels Flood, Flooding, Other: Landslide give the scalar
\* type flood and a notes entry 'Other type(s): Landslide'; the labels Flood,
\* Drought give the sequence [flood, drought].
C6_AsStated ==
  [][Emits =>
       /\ raw_types(rows[n], idx) = labels_FloodFloodingOther
            => /\ Emitted["type"].kind = "str"
               /\ Emitted["type"].val = s_flood
               /\ Contains(Emitted["notes"], note_Landslide)
       /\ raw_types(rows[n], idx) = labels_FloodDrought
            => /\ Emitted["type"].kind = "list"
               /\ Emitted["type"].val = <<s_flood, s_drought>>]_vars

\* C6 amended: the labels Flood, Flooding, Other: Landslide give the sequence
\* [flood, other] (other is itself a token of the vocabulary) and a notes
\* entry 'Other type(s): landslide' (lower-cased); the labels Flood, Drought
\* give the sequence [flood, drought].
C6_TypeShape ==
  [][Emits =>
       /\ raw_types(rows[n], idx) = labels_FloodFloodingOther
            => /\ Emitted["type"].kind = "list"
               /\ Emitted["type"].val = <<s_flood, s_other>>
               /\ Contains(Emitted["notes"], note_landslide)
               /\ ~Contains(Emitted["notes"], note_Landslide)
       /\ raw_types(rows[n], idx) = labels_FloodDrought
            => /\ Emitted["type"].kind = "list"
               /\ Emitted["type"].val = <<s_flood, s_drought>>]_vars

\* both rows of the claim have been emitted in one pass
C6_Witness ==
  /\ pc = "sync"
  /\ Len(rows) = 3 /\ n = 4
  /\ raw_types(rows[2], idx) = labels_FloodFloodingOther
  /\ raw_types(rows[3], idx) = labels_FloodDrought
  /\ Len(new_data) = 2
  /\ new_data[1]["type"].kind = "list"
  /\ new_data[2]["type"].kind = "list"

\* the lower-cased cell of a flag column; empty when the column was not
\* detected, the row is too short or the cell is empty
FlagWord(f) == lower(cell(rows[n], idx[f]))
FlagDefaulted(f) == FlagWord(f) \notin (TrueWords \cup FalseWords) \ {<<>>}

\* C7: in every emitted record public and active are true when the cell is
\* absent or unrecognized and subscription is false then; a recognized word
\* gives that boolean.
C7_FlagDefaults ==
  [][Emits =>
       /\ \A f \in {"public", "active"} : FlagDefaulted(f) => Emitted[f] = TRUE
       /\ FlagDefaulted("subscription") => Emitted["subscription"] = FALSE
       /\ \A f \in {"public", "active", "subscription"} :
            /\ FlagWord(f) \in TrueWords => Emitted[f] = TRUE
            /\ FlagWord(f) \in FalseWords \ {<<>>} => Emitted[f] = FALSE]_vars

\* the reasons the validation owes a row
OwedReasons(r, ix) ==
  (IF cell(r, ix.name) = <<>> THEN {"missing name"} ELSE {})
    \cup (IF cell(r, ix.description) = <<>> THEN {"missing description"} ELSE {})
    \cup (IF cell(r, ix.url) = <<>> THEN {"missing url"} ELSE {})
    \cup (IF types_final(raw_types(r, ix)) = <<>> THEN {"no valid types"} ELSE {})
    \cup (IF normalize_url(cell(r, ix.url)) = <<>> THEN {"bad url"} ELSE {})

\* C8: a row that fails validation is skipped with its reasons recorded; it
\* adds no record, changes neither added nor updated, marks no url as seen,
\* and the loop goes on to the next row: a pass ends only when every row was
\* either emitted or skipped.
C8_RejectedRowSkipped ==
  [][/\ (AtRow /\ n' = n + 1 /\ ~RowValidated(rows[n], idx))
          => /\ new_data' = new_data
             /\ added' = added
             /\ updated' = updated
             /\ processed_urls' = processed_urls
             /\ pc' = "sync"
             /\ Len(skipped') = Len(skipped) + 1
             /\ skipped'[Len(skipped')].n = n
             /\ {skipped'[Len(skipped')].reasons[i] :
                   i \in 1..Len(skipped'[Len(skipped')].reasons)}
                  = OwedReasons(rows[n], idx)
     /\ (pc = "sync" /\ pc' = "idle")
          => Len(new_data') + Len(skipped') = Len(rows) - 1]_vars

\* a rejected first row was followed by a row that was emitted
C8_Witness ==
  /\ pc = "sync"
  /\ n = 4
  /\ Len(skipped) = 1 /\ skipped[1].n = 2
  /\ Len(new_data) = 1
  /\ added + updated = 1

\* C5: normalize_url is idempotent, paths ending in several '/' and utm_*
\* parameters included.
C5_Idempotent ==
  (fnArg.fn = "normalize_url" /\ Len(fnRet) = 2) => fnRet[2] = fnRet[1]

\* C9: detect_column on a header row containing "Contributor's E-Mail!", with
\* the candidates of contributorEmail, returns the index of that header.
C9_ResolvesContributorEmail ==
  (/\ fnArg.fn = "detect_column"
   /\ fnArg.field = "contributorEmail"
   /\ InSeq(h_ContributorsEMail, fnArg.headers)
   /\ fnRet # <<>>)
    => /\ fnRet[1] # None
       /\ fnArg.headers[fnRet[1] + 1] = h_ContributorsEMail

\* record r has an accessibilityError only when its accessible field is false
ErrorOnlyWhenInaccessible(r) ==
  "accessibilityError" \in DOMAIN r =>
    ("accessible" \in DOMAIN r /\ r["accessible"] = FALSE)

\* C11: from a store in which it holds, after any sequence of accessibility
\* passes and sync passes no record of the store (nor of the list a running
\* job holds) has accessible = true together with an accessibilityError.
C11_ErrorOnlyWhenInaccessible ==
  /\ \A i \in 1..Len(store) : ErrorOnlyWhenInaccessible(store[i])
  /\ \A i \in 1..Len(data) : ErrorOnlyWhenInaccessible(data[i])
  /\ \A i \in 1..Len(new_data) : ErrorOnlyWhenInaccessible(new_data[i])

\* an accessibility pass found the record that carried an error accessible
\* and another record failing, and a later sync pass updated both
C11_Witness ==
  /\ pc = "idle" /\ lastJob = "sync" /\ passes >= 2 /\ updated >= 2
  /\ \E i \in 1..Len(store) :
       /\ store[i].url = normalize_url(eStale.url)
       /\ "accessible" \in DOMAIN store[i] /\ store[i]["accessible"]
       /\ "accessibilityError" \notin DOMAIN store[i]
  /\ \E j \in 1..Len(store) :
       /\ "accessibilityError" \in DOMAIN store[j]
       /\ ~store[j]["accessible"]

\* the validated rows of the sheet being read
ValidatedRows == {j \in 2..Len(rows) : RowValidated(rows[j], idx)}

\* C12: a sync pass that reads the rows of the pass before it against that
\* pass's output classifies every validated row as updated, emits a list
\* equal to the store it loaded, and reports added = 0 and removed = 0.
C12_RepeatIsStable ==
  /\ (pc = "sync" /\ passes >= 2 /\ n > Len(rows))
       => /\ added = 0
          /\ updated = Cardinality(ValidatedRows)
          /\ new_data = store
  /\ (SyncWritten /\ passes >= 2) => (added = 0 /\ removed = 0)

\* C13: the list a sync pass writes holds at most one record per normalized
\* url (the url field of an output record is the normalized url of its row),
\* also when several validated rows normalize to one url.
C13_OneRecordPerUrl ==
  SyncWritten =>
    \A i \in 1..Len(store) : \A j \in 1..Len(store) :
      i # j => store[i].url # store[j].url

====
